---- MODULE Spec2Model ----
(***************************************************************************)
(* VisionFlow (src/script.js): the Sync Binding (useFirebaseStorage), the   *)
(* task / reflection handlers of the VisionFlow component and the derived   *)
(* state of its daily and dashboard views.                                  *)
(*                                                                          *)
(* Conventions.  A date string "YYYY-MM-DD" is the tuple <<y, m, d>>; a JS  *)
(* Date is its epoch value in minutes; Date.now().toString() is the digit   *)
(* sequence of the clock value.  The remote store is one document per       *)
(* collection name for the one signed-in user; setDoc calls of a client are *)
(* applied in the order they were issued.                                   *)
(***************************************************************************)
EXTENDS Integers, Sequences, FiniteSets, TLC

VARIABLES
    auth,          \* [Sessions -> BOOLEAN]  module-level `auth` is defined
    db,            \* [Sessions -> BOOLEAN]  module-level `db` is defined
    user,          \* [Sessions -> {NoUser, Uid}]  useState(null)
    loadingAuth,   \* [Sessions -> BOOLEAN]  useState(true)
    data,          \* [Sessions -> [Docs -> value]]  the bindings' local values
    initialized,   \* [Sessions -> [Docs -> BOOLEAN]]
    listening,     \* [Sessions -> SUBSET Docs]  live onSnapshot listeners
    remote,        \* [Docs -> snapshot]  the remote documents
    writes,        \* [Sessions -> Seq(write)]  setDoc calls in flight
    snapshots,         \* [Sessions -> [Docs -> Seq(snapshot)]]  notifications in flight
    console,       \* [Sessions -> set of error reports]  each tab's console
    selectedDate,  \* [Sessions -> date]  useState(actualTodayStr)
    now,           \* Date.now(), as an epoch value in minutes
    tzOffset,      \* <<o1, o2>>: local time minus UTC in minutes, at noon of the
                   \* selected day and at noon of the day after it
    alert          \* the message of the last alert() call, <<>> before the first

vars == <<auth, db, user, loadingAuth, data, initialized, listening, remote,
          writes, snapshots, console, selectedDate, now, tzOffset, alert>>

syncVars == <<auth, db, user, loadingAuth, initialized, listening, remote,
              writes, snapshots, console>>

-----------------------------------------------------------------------------
(* Calendar arithmetic of the JS Date object.                               *)

MinutesPerDay == 1440

IsLeap(y) == (y % 4 = 0 /\ y % 100 # 0) \/ y % 400 = 0

DaysInMonth(y, m) ==
    IF m = 2 THEN (IF IsLeap(y) THEN 29 ELSE 28)
    ELSE IF m \in {4, 6, 9, 11} THEN 30 ELSE 31

\* Day number of the civil date y-m-d, 1970-01-01 being day 0 (the Date
\* constructor's MakeDay).  d may exceed the month's length: MakeDay adds the
\* excess days, which is how setDate(getDate() + 1) crosses a month end.
DaysFromCivil(y, m, d) ==
    LET yy  == IF m <= 2 THEN y - 1 ELSE y
        era == yy \div 400
        yoe == yy - era * 400
        mp  == IF m > 2 THEN m - 3 ELSE m + 9
        doy == (153 * mp + 2) \div 5 + d - 1
        doe == yoe * 365 + yoe \div 4 - yoe \div 100 + doy
    IN  era * 146097 + doe - 719468

\* The civil date <<y, m, d>> of day number z (the UTC fields toISOString prints).
CivilFromDays(z) ==
    LET zz  == z + 719468
        era == zz \div 146097
        doe == zz - era * 146097
        yoe == (doe - doe \div 1460 + doe \div 36524 - doe \div 146096) \div 365
        doy == doe - (365 * yoe + yoe \div 4 - yoe \div 100)
        mp  == (5 * doy + 2) \div 153
        d   == doy - (153 * mp + 2) \div 5 + 1
        m   == IF mp < 10 THEN mp + 3 ELSE mp - 9
        y   == yoe + era * 400 + (IF m <= 2 THEN 1 ELSE 0)
    IN  <<y, m, d>>

\* new Date(dateStr + 'T12:00:00'): a date-time string without a zone is local
\* time, so the epoch value is local noon minus the zone's offset.
DateLocalNoon(dateStr, tz) ==
    DaysFromCivil(dateStr[1], dateStr[2], dateStr[3]) * MinutesPerDay + 720 - tz[1]

\* d.setDate(d.getDate() + 1): the local day-of-month plus one at the same
\* local time; tz[2] is the zone's offset on that following day.
SetDatePlusOne(epoch, tz) == epoch + tz[1] + MinutesPerDay - tz[2]

\* d.toISOString().split('T')[0]: the UTC calendar date of the epoch value.
ToISODate(epoch) == CivilFromDays(epoch \div MinutesPerDay)

\* new Date(dateStr) of a date-only string: UTC midnight of that date.
DateUTC(dateStr) ==
    DaysFromCivil(dateStr[1], dateStr[2], dateStr[3]) * MinutesPerDay

getNextDayStr(dateStr, tz) ==
    ToISODate(SetDatePlusOne(DateLocalNoon(dateStr, tz), tz))

\* getTodayStr: d.setMinutes(d.getMinutes() - d.getTimezoneOffset()) shifts the
\* clock value by the zone's offset, so that the UTC date printed by
\* toISOString is the local date.
getTodayStr(clock, tz) == ToISODate(clock + tz[1])

-----------------------------------------------------------------------------
(* The component's constants and the values of its six collections.         *)

Sessions == {1, 2}

Docs == {"vision", "categories_v2", "goals", "weeklyFocus", "tasks", "reflections"}

NoUser == "null"
Uid == "uid"

\* The clock at page load, 2024-03-31T10:00Z, and actualTodayStr in a zone
\* without offset.
NowAtLoad == DateUTC(<<2024, 3, 31>>) + 600
Today == getTodayStr(NowAtLoad, <<0, 0>>)

defaultCategories ==
    [Work      |-> <<"Career Coaching", "Life Coaching", "Social Media">>,
     Wellness  |-> <<"Social", "Physical", "Spiritual">>,
     Learning  |-> <<"Reading", "Courses">>,
     Household |-> <<"General Chores", "Admin">>]

\* The third argument of each useFirebaseStorage call.
initialValue(d) ==
    CASE d = "vision" ->
           [life |-> "To live a balanced, purposeful life...",
            annual |-> "Build a sustainable foundation for...",
            themes |-> <<"Health", "Wealth", "Wisdom">>,
            coreValues |-> "Integrity, Growth, Compassion"]
      [] d = "categories_v2" -> defaultCategories
      [] d = "weeklyFocus" -> [text |-> "", weekOf |-> Today]
      [] OTHER -> <<>>

\* A document snapshot: docSnap.exists() and docSnap.data().value.
Absent == [exists |-> FALSE]
Snap(v) == [exists |-> TRUE, value |-> v]

Max(S) == CHOOSE x \in S : \A y \in S : y <= x

\* Number.prototype.toString of a non-negative integer: its decimal digits.
RECURSIVE toString(_)
toString(n) == IF n < 10 THEN <<n>> ELSE Append(toString(n \div 10), n % 10)

-----------------------------------------------------------------------------
(* Caps on the queues, used in the guards of the specifications.            *)

\* Room for n more setDoc calls of session s when at most max are in flight.
WriteRoom(s, n, max) == Len(writes[s]) + n <= max

\* Room for one more notification in every listener's queue of at most max.
NoteRoom(max) == \A t \in Sessions, d \in Docs : Len(snapshots[t][d]) < max

-----------------------------------------------------------------------------
(* The Sync Binding: useFirebaseStorage(user, docName, initialValue).        *)

\* allDataInitialized without the reflections binding's flag
allDataInitialized_FiveFlags(s) == \A d \in Docs \ {"reflections"} : initialized[s][d]

\* vInit && cInit && gInit && wInit && tInit && rInit
allDataInitialized(s) == \A d \in Docs : initialized[s][d]

\* The loading gate: a view is rendered unless the loading screen is returned.
ViewRendered(s) ==
    ~(loadingAuth[s] \/ (user[s] # NoUser /\ ~allDataInitialized(s)))

\* A function passed to the setter, by name, applied to the current value.
ApplyFn(f, prev) ==
    CASE f = "toggleAll" ->
           [i \in 1..Len(prev) |->
              [prev[i] EXCEPT !.status = IF @ = "Done" THEN "Not Started" ELSE "Done"]]
      [] OTHER -> prev

\* const toSave = typeof newValue === 'function' ? newValue(data) : newValue
\* A call c is [doc, isFn, arg]; data is the value the handler's render saw.
ToSave(s, c) == IF c.isFn THEN ApplyFn(c.arg, data[s][c.doc]) ELSE c.arg

\* updateData with the write taking the value of the render's `data` instead
\* of toSave.
updateData_WritesData(s, calls) ==
    /\ data' = [data EXCEPT ![s] =
         [d \in Docs |->
            LET idx == {i \in 1..Len(calls) : calls[i].doc = d}
            IN  IF idx = {} THEN data[s][d] ELSE ToSave(s, calls[Max(idx)])]]
    /\ writes' =
         IF user[s] = NoUser \/ ~db[s] THEN writes
         ELSE [writes EXCEPT ![s] = @ \o
                 [i \in 1..Len(calls) |->
                    [doc |-> calls[i].doc, value |-> data[s][calls[i].doc],
                     caught |-> TRUE]]]

\* The setter calls a handler makes (calls, in order), each on its binding:
\* setData(toSave), then setDoc(docRef, {value: toSave}, {merge: true}) with
\* .catch(console.error) unless there is no user or no db.
updateData(s, calls) ==
    /\ data' = [data EXCEPT ![s] =
         [d \in Docs |->
            LET idx == {i \in 1..Len(calls) : calls[i].doc = d}
            IN  IF idx = {} THEN data[s][d] ELSE ToSave(s, calls[Max(idx)])]]
    /\ writes' =
         IF user[s] = NoUser \/ ~db[s] THEN writes
         ELSE [writes EXCEPT ![s] = @ \o
                 [i \in 1..Len(calls) |->
                    [doc |-> calls[i].doc, value |-> ToSave(s, calls[i]),
                     caught |-> TRUE]]]

\* onAuthStateChanged callback with user u, and the effects that follow the
\* render: each binding whose user changed to a signed-in one registers its
\* onSnapshot listener, whose first notification carries the document's state.
AuthStateChanged(s, u) ==
    /\ auth[s]
    /\ loadingAuth[s] \/ (user[s] = NoUser /\ u # NoUser)
    /\ user' = [user EXCEPT ![s] = u]
    /\ loadingAuth' = [loadingAuth EXCEPT ![s] = FALSE]
    /\ IF u # NoUser /\ db[s]
       THEN /\ listening' = [listening EXCEPT ![s] = Docs]
            /\ snapshots' = [snapshots EXCEPT ![s] = [d \in Docs |-> <<remote[d]>>]]
       ELSE UNCHANGED <<listening, snapshots>>
    /\ UNCHANGED <<auth, db, data, initialized, remote, writes, console,
                   selectedDate, now, tzOffset, alert>>

\* Deliver with the payload applied only by a binding's first notification.
Deliver_FirstOnly(s, d) ==
    /\ d \in listening[s]
    /\ snapshots[s][d] # <<>>
    /\ LET docSnap == Head(snapshots[s][d])
       IN  IF docSnap.exists
           THEN /\ data' = IF initialized[s][d] THEN data
                           ELSE [data EXCEPT ![s][d] = docSnap.value]
                /\ writes' = writes
           ELSE /\ writes' = [writes EXCEPT ![s] =
                     Append(@, [doc |-> d, value |-> initialValue(d),
                                caught |-> FALSE])]
                /\ data' = [data EXCEPT ![s][d] = initialValue(d)]
    /\ initialized' = [initialized EXCEPT ![s][d] = TRUE]
    /\ snapshots' = [snapshots EXCEPT ![s][d] = Tail(@)]
    /\ UNCHANGED <<auth, db, user, loadingAuth, listening, remote, console,
                   selectedDate, now, tzOffset, alert>>

\* The onSnapshot success callback of binding d, on the oldest notification.
Deliver(s, d) ==
    /\ d \in listening[s]
    /\ snapshots[s][d] # <<>>
    /\ LET docSnap == Head(snapshots[s][d])
       IN  IF docSnap.exists
           THEN /\ data' = [data EXCEPT ![s][d] = docSnap.value]
                /\ writes' = writes
           ELSE /\ writes' = [writes EXCEPT ![s] =
                     Append(@, [doc |-> d, value |-> initialValue(d),
                                caught |-> FALSE])]
                /\ data' = [data EXCEPT ![s][d] = initialValue(d)]
    /\ initialized' = [initialized EXCEPT ![s][d] = TRUE]
    /\ snapshots' = [snapshots EXCEPT ![s][d] = Tail(@)]
    /\ UNCHANGED <<auth, db, user, loadingAuth, listening, remote, console,
                   selectedDate, now, tzOffset, alert>>

\* The error callback with the local value set back to initialValue.
SnapshotError_ResetsToDefault(s, d) ==
    /\ d \in listening[s]
    /\ console' = [console EXCEPT ![s] = @ \cup {"Snapshot error:"}]
    /\ initialized' = [initialized EXCEPT ![s][d] = TRUE]
    /\ listening' = [listening EXCEPT ![s] = @ \ {d}]
    /\ snapshots' = [snapshots EXCEPT ![s][d] = <<>>]
    /\ data' = [data EXCEPT ![s][d] = initialValue(d)]
    /\ UNCHANGED <<auth, db, user, loadingAuth, remote, writes,
                   selectedDate, now, tzOffset, alert>>

\* The onSnapshot error callback of binding d; the listener ends with it.
SnapshotError(s, d) ==
    /\ d \in listening[s]
    /\ console' = [console EXCEPT ![s] = @ \cup {"Snapshot error:"}]
    /\ initialized' = [initialized EXCEPT ![s][d] = TRUE]
    /\ listening' = [listening EXCEPT ![s] = @ \ {d}]
    /\ snapshots' = [snapshots EXCEPT ![s][d] = <<>>]
    /\ UNCHANGED <<auth, db, user, loadingAuth, data, remote, writes,
                   selectedDate, now, tzOffset, alert>>

\* WriteOk with a written list appended to the stored list's other elements
\* instead of replacing it.
WriteOk_MergesLists(s) ==
    /\ writes[s] # <<>>
    /\ LET w == Head(writes[s])
           merged == IF w.doc = "tasks" /\ remote[w.doc].exists
                     THEN SelectSeq(remote[w.doc].value,
                                    LAMBDA t : \A i \in 1..Len(w.value) : w.value[i] # t)
                          \o w.value
                     ELSE w.value
       IN  /\ remote' = [remote EXCEPT ![w.doc] = Snap(merged)]
           /\ snapshots' = [t \in Sessions |->
                IF w.doc \in listening[t]
                THEN [snapshots[t] EXCEPT ![w.doc] = Append(@, Snap(merged))]
                ELSE snapshots[t]]
    /\ writes' = [writes EXCEPT ![s] = Tail(@)]
    /\ UNCHANGED <<auth, db, user, loadingAuth, data, initialized, listening,
                   console, selectedDate, now, tzOffset, alert>>

\* WriteOk with the notification sent to the other sessions' listeners only,
\* not to the writer's own.
WriteOk_NotifiesOthers(s) ==
    /\ writes[s] # <<>>
    /\ LET w == Head(writes[s])
       IN  /\ remote' = [remote EXCEPT ![w.doc] = Snap(w.value)]
           /\ snapshots' = [t \in Sessions |->
                IF w.doc \in listening[t] /\ t # s
                THEN [snapshots[t] EXCEPT ![w.doc] = Append(@, Snap(w.value))]
                ELSE snapshots[t]]
    /\ writes' = [writes EXCEPT ![s] = Tail(@)]
    /\ UNCHANGED <<auth, db, user, loadingAuth, data, initialized, listening,
                   console, selectedDate, now, tzOffset, alert>>

\* The store applies the oldest setDoc of session s and notifies every
\* listener of that document, the writer's own included.
WriteOk(s) ==
    /\ writes[s] # <<>>
    /\ LET w == Head(writes[s])
       IN  /\ remote' = [remote EXCEPT ![w.doc] = Snap(w.value)]
           /\ snapshots' = [t \in Sessions |->
                IF w.doc \in listening[t]
                THEN [snapshots[t] EXCEPT ![w.doc] = Append(@, Snap(w.value))]
                ELSE snapshots[t]]
    /\ writes' = [writes EXCEPT ![s] = Tail(@)]
    /\ UNCHANGED <<auth, db, user, loadingAuth, data, initialized, listening,
                   console, selectedDate, now, tzOffset, alert>>

\* WriteFail with the rejected setDoc issued again.
WriteFail_Retry(s) ==
    /\ writes[s] # <<>>
    /\ LET w == Head(writes[s])
       IN  /\ console' = [console EXCEPT ![s] = @ \cup
                  {IF w.caught THEN "setDoc rejected" ELSE "unhandled rejection"}]
           /\ writes' = [writes EXCEPT ![s] = Append(Tail(@), w)]
    /\ UNCHANGED <<auth, db, user, loadingAuth, data, initialized, listening,
                   remote, snapshots, selectedDate, now, tzOffset, alert>>

\* WriteFail with the rejection taking every setDoc the session has in flight
\* with it, as if the writes were one batch.
WriteFail_DropsBatch(s) ==
    /\ writes[s] # <<>>
    /\ LET w == Head(writes[s])
       IN  console' = [console EXCEPT ![s] = @ \cup
                {IF w.caught THEN "setDoc rejected" ELSE "unhandled rejection"}]
    /\ writes' = [writes EXCEPT ![s] = <<>>]
    /\ UNCHANGED <<auth, db, user, loadingAuth, data, initialized, listening,
                   remote, snapshots, selectedDate, now, tzOffset, alert>>

\* The oldest setDoc of session s is rejected: console.error when the call
\* has a catch (updateData), an unhandled rejection otherwise (first-time setup).
WriteFail(s) ==
    /\ writes[s] # <<>>
    /\ LET w == Head(writes[s])
       IN  console' = [console EXCEPT ![s] = @ \cup
                {IF w.caught THEN "setDoc rejected" ELSE "unhandled rejection"}]
    /\ writes' = [writes EXCEPT ![s] = Tail(@)]
    /\ UNCHANGED <<auth, db, user, loadingAuth, data, initialized, listening,
                   remote, snapshots, selectedDate, now, tzOffset, alert>>

\* Any handler's call of the setter of binding d with newValue (a value, or a
\* function of the previous value), made from a rendered view.
SetterCall(s, d, isFn, arg) ==
    /\ ViewRendered(s)
    /\ updateData(s, <<[doc |-> d, isFn |-> isFn, arg |-> arg]>>)
    /\ UNCHANGED <<auth, db, user, loadingAuth, initialized, listening, remote,
                   snapshots, console, selectedDate, now, tzOffset, alert>>

-----------------------------------------------------------------------------
(* Derived state of the daily view.                                         *)

OverloadMinutes == 480
OverloadTasks == 6

\* parseInt(t.estTime) || 0 of a stored estimate, which is an integer number.
ParseIntOrZero(n) == IF n = 0 THEN 0 ELSE n

\* tasks.filter(t => t.date === selectedDate)
viewedTasks(tasks, date) == SelectSeq(tasks, LAMBDA t : t.date = date)

\* viewedTasks.forEach(t => { totalMins += parseInt(t.estTime) || 0 })
RECURSIVE TotalMins(_)
TotalMins(ts) ==
    IF ts = <<>> THEN 0
    ELSE TotalMins(SubSeq(ts, 1, Len(ts) - 1)) + ParseIntOrZero(ts[Len(ts)].estTime)

\* overloadStats with the minutes threshold reached at 480.
overloadStats_AtLeast(viewed) ==
    [totalMins    |-> TotalMins(viewed),
     totalTasks   |-> Len(viewed),
     isOverloaded |-> TotalMins(viewed) >= OverloadMinutes \/ Len(viewed) > OverloadTasks]

overloadStats(viewed) ==
    [totalMins    |-> TotalMins(viewed),
     totalTasks   |-> Len(viewed),
     isOverloaded |-> TotalMins(viewed) > OverloadMinutes \/ Len(viewed) > OverloadTasks]

-----------------------------------------------------------------------------
(* Handlers of the VisionFlow component.                                    *)

\* parseInt(taskForm.estTime): the number input's text, a decimal with at most
\* one fractional digit, given in tenths; parseInt keeps the integer part.
parseInt(tenths) == tenths \div 10

SeqToSet(q) == {q[i] : i \in 1..Len(q)}

MapSeq(q, F(_)) == [i \in 1..Len(q) |-> F(q[i])]

\* handleAddTask without the includes test: the sub-category is appended
\* whenever the main category exists.
handleAddTask_AlwaysAppends(s, mainCat, subCategory, title, estTime) ==
    LET categories == data[s]["categories_v2"]
        tasks == data[s]["tasks"]
        subCat == IF subCategory = "" THEN "General" ELSE subCategory
        newTask == [id |-> toString(now), date |-> selectedDate[s],
                    title |-> title, category |-> mainCat,
                    subCategory |-> subCat, estTime |-> parseInt(estTime),
                    status |-> "Not Started"]
        catCalls == IF mainCat \in DOMAIN categories
                    THEN <<[doc |-> "categories_v2", isFn |-> FALSE,
                            arg |-> [categories EXCEPT ![mainCat] = Append(@, subCat)]]>>
                    ELSE <<>>
        calls == catCalls \o
                 <<[doc |-> "tasks", isFn |-> FALSE, arg |-> Append(tasks, newTask)]>>
    IN  /\ ViewRendered(s)
        /\ updateData(s, calls)
        /\ UNCHANGED <<auth, db, user, loadingAuth, initialized, listening,
                       remote, snapshots, console, selectedDate, now, tzOffset, alert>>

\* handleAddTask: the form's main category, sub-category text, title and
\* estimate; the clock gives the identifier.
handleAddTask(s, mainCat, subCategory, title, estTime) ==
    LET categories == data[s]["categories_v2"]
        tasks == data[s]["tasks"]
        subCat == IF subCategory = "" THEN "General" ELSE subCategory
        grow == /\ mainCat \in DOMAIN categories
                /\ subCat \notin SeqToSet(categories[mainCat])
        newTask == [id |-> toString(now), date |-> selectedDate[s],
                    title |-> title, category |-> mainCat,
                    subCategory |-> subCat, estTime |-> parseInt(estTime),
                    status |-> "Not Started"]
        catCalls == IF grow
                    THEN <<[doc |-> "categories_v2", isFn |-> FALSE,
                            arg |-> [categories EXCEPT ![mainCat] = Append(@, subCat)]]>>
                    ELSE <<>>
        calls == catCalls \o
                 <<[doc |-> "tasks", isFn |-> FALSE, arg |-> Append(tasks, newTask)]>>
    IN  /\ ViewRendered(s)
        /\ updateData(s, calls)
        /\ UNCHANGED <<auth, db, user, loadingAuth, initialized, listening,
                       remote, snapshots, console, selectedDate, now, tzOffset, alert>>

\* toggleTaskStatus's list with the task of the id marked Done whatever its
\* status was.
ToggledTasks_MarksDone(tasks, id) ==
    [i \in 1..Len(tasks) |->
        IF tasks[i].id = id THEN [tasks[i] EXCEPT !.status = "Done"] ELSE tasks[i]]

\* toggleTaskStatus's list with the task of the id left out.
ToggledTasks_DropsTask(tasks, id) ==
    SelectSeq(tasks, LAMBDA t : t.id # id)

\* tasks.map(...) of toggleTaskStatus
ToggledTasks(tasks, id) ==
    MapSeq(tasks, LAMBDA t :
        IF t.id = id
        THEN [t EXCEPT !.status = IF t.status = "Done" THEN "Not Started" ELSE "Done"]
        ELSE t)

toggleTaskStatus(s, id) ==
    /\ ViewRendered(s)
    /\ updateData(s, <<[doc |-> "tasks", isFn |-> FALSE,
                        arg |-> ToggledTasks(data[s]["tasks"], id)]>>)
    /\ UNCHANGED <<auth, db, user, loadingAuth, initialized, listening, remote,
                   snapshots, console, selectedDate, now, tzOffset, alert>>

\* The condition under which saveReflection recycles task t: recycle is the set
\* of task ids whose `recycle_<id>` checkbox the form data reports 'on'.
Recycled(t, date, recycle) ==
    t.date = date /\ t.status # "Done" /\ t.id \in recycle

\* updatedTasks with every unfinished task of the date rolled over, whatever
\* the form's recycle boxes say.
RolledTasks_AllUnfinished(tasks, date, nextDayStr, recycle) ==
    MapSeq(tasks, LAMBDA t :
        IF t.date = date /\ t.status # "Done" THEN [t EXCEPT !.date = nextDayStr] ELSE t)

\* const updatedTasks = tasks.map(...)
RolledTasks(tasks, date, nextDayStr, recycle) ==
    MapSeq(tasks, LAMBDA t :
        IF Recycled(t, date, recycle) THEN [t EXCEPT !.date = nextDayStr] ELSE t)

\* recycledCount after the map
RecycledCount(tasks, date, recycle) ==
    Cardinality({i \in 1..Len(tasks) : Recycled(tasks[i], date, recycle)})

\* [...reflections, newRef], without the filter
ReplacedReflections_Appended(reflections, newRef) ==
    Append(reflections, newRef)

\* const updated = reflections.filter(r => r.date !== selectedDate);
\* [...updated, newRef]
ReplacedReflections(reflections, newRef) ==
    Append(SelectSeq(reflections, LAMBDA r : r.date # newRef.date), newRef)

\* saveReflection: the form's completion, mood, overloaded and notes fields
\* and the checked recycle boxes.
saveReflection(s, completion, mood, overloaded, notes, recycle) ==
    LET tasks == data[s]["tasks"]
        date == selectedDate[s]
        newRef == [id |-> toString(now), date |-> date, completion |-> completion,
                   mood |-> mood, overloaded |-> overloaded, notes |-> notes]
        nextDayStr == getNextDayStr(date, tzOffset)
        recycledCount == RecycledCount(tasks, date, recycle)
        refCall == [doc |-> "reflections", isFn |-> FALSE,
                    arg |-> ReplacedReflections(data[s]["reflections"], newRef)]
        taskCalls == IF recycledCount > 0
                     THEN <<[doc |-> "tasks", isFn |-> FALSE,
                             arg |-> RolledTasks(tasks, date, nextDayStr, recycle)]>>
                     ELSE <<>>
    IN  /\ ViewRendered(s)
        /\ updateData(s, <<refCall>> \o taskCalls)
        /\ alert' = IF recycledCount > 0
                     THEN <<"Reflection saved! Rolled over", recycledCount>>
                     ELSE <<"Reflection saved successfully.">>
        /\ UNCHANGED <<auth, db, user, loadingAuth, initialized, listening,
                       remote, snapshots, console, selectedDate, now, tzOffset>>

\* The date picker's onChange, or the Back to Today button.
SelectDate(s, date) ==
    /\ ViewRendered(s)
    /\ date # selectedDate[s]
    /\ selectedDate' = [selectedDate EXCEPT ![s] = date]
    /\ UNCHANGED <<auth, db, user, loadingAuth, data, initialized, listening,
                   remote, writes, snapshots, console, now, tzOffset, alert>>

-----------------------------------------------------------------------------
(* Spec: one session from page load on, with setter calls from rendered     *)
(* views, the store's answers and the listeners' notifications.             *)

SampleTask ==
    [id |-> <<1>>, date |-> Today, title |-> "Plan", category |-> "Work",
     subCategory |-> "General", estTime |-> 30, status |-> "Not Started"]

SampleFocus == [text |-> "Ship", weekOf |-> Today]

\* What a returning user's documents hold.
StoredValue(d) ==
    CASE d = "tasks" -> <<SampleTask>>
      [] d = "weeklyFocus" -> SampleFocus
      [] OTHER -> initialValue(d)

\* The documents that exist at load: all, or all but one.
ExistingDocs == {Docs, Docs \ {"tasks"}}

\* The listeners that end in an error.
ErrorDocs == {"tasks"}

\* The bindings whose setters the modelled views call, and the arguments.
EditedDocs == {"tasks", "weeklyFocus"}

SetterArgs(d) ==
    IF d = "tasks"
    THEN {<<FALSE, <<>>>>, <<FALSE, <<SampleTask>>>>, <<TRUE, "toggleAll">>}
    ELSE {<<FALSE, initialValue(d)>>, <<FALSE, SampleFocus>>}

\* The outcomes of the module-level Firebase init: <<auth defined, db defined>>.
InitOutcomes == {<<TRUE, TRUE>>, <<TRUE, FALSE>>, <<FALSE, FALSE>>}

Loaded(outcomes, existing) ==
    /\ auth = [s \in Sessions |-> outcomes[s][1]]
    /\ db = [s \in Sessions |-> outcomes[s][2]]
    /\ user = [s \in Sessions |-> NoUser]
    /\ loadingAuth = [s \in Sessions |-> TRUE]
    /\ data = [s \in Sessions |-> [d \in Docs |-> initialValue(d)]]
    /\ initialized = [s \in Sessions |-> [d \in Docs |-> FALSE]]
    /\ listening = [s \in Sessions |-> {}]
    /\ remote = [d \in Docs |-> IF d \in existing THEN Snap(StoredValue(d)) ELSE Absent]
    /\ writes = [s \in Sessions |-> <<>>]
    /\ snapshots = [s \in Sessions |-> [d \in Docs |-> <<>>]]
    /\ console = [s \in Sessions |-> {}]
    /\ selectedDate = [s \in Sessions |-> Today]
    /\ now = NowAtLoad
    /\ tzOffset = <<0, 0>>
    /\ alert = <<>>

Init ==
    \E o \in InitOutcomes, existing \in ExistingDocs :
        Loaded([s \in Sessions |-> IF s = 1 THEN o ELSE <<TRUE, TRUE>>], existing)

MaxWrites == 1       \* setDoc calls the session has in flight
MaxNotes == 2        \* notifications queued for one listener

Next ==
    \E s \in {1} :
        \/ \E u \in {NoUser, Uid} : AuthStateChanged(s, u)
        \/ \E d \in Docs : WriteRoom(s, 1, MaxWrites) /\ Deliver(s, d)
        \/ \E d \in ErrorDocs : SnapshotError(s, d)
        \/ NoteRoom(MaxNotes) /\ WriteOk(s)
        \/ WriteFail(s)
        \/ \E d \in EditedDocs : \E a \in SetterArgs(d) :
              WriteRoom(s, 1, MaxWrites) /\ SetterCall(s, d, a[1], a[2])

Spec == Init /\ [][Next]_vars

-----------------------------------------------------------------------------
(* SpecSync: two sessions of the same user, both past the loading gate with *)
(* every binding initialized from the stored documents.                     *)

InitSync ==
    /\ auth = [s \in Sessions |-> TRUE]
    /\ db = [s \in Sessions |-> TRUE]
    /\ user = [s \in Sessions |-> Uid]
    /\ loadingAuth = [s \in Sessions |-> FALSE]
    /\ data = [s \in Sessions |-> [d \in Docs |-> StoredValue(d)]]
    /\ initialized = [s \in Sessions |-> [d \in Docs |-> TRUE]]
    /\ listening = [s \in Sessions |-> Docs]
    /\ remote = [d \in Docs |-> Snap(StoredValue(d))]
    /\ writes = [s \in Sessions |-> <<>>]
    /\ snapshots = [s \in Sessions |-> [d \in Docs |-> <<>>]]
    /\ console = [s \in Sessions |-> {}]
    /\ selectedDate = [s \in Sessions |-> Today]
    /\ now = NowAtLoad
    /\ tzOffset = <<0, 0>>
    /\ alert = <<>>

\* The setter calls of the two sessions: both edit the tasks document.
SyncArgs == {<<FALSE, <<>>>>, <<FALSE, <<SampleTask>>>>}

NextSync ==
    \E s \in Sessions :
        \/ \E d \in Docs : Deliver(s, d)
        \/ s = 2 /\ SnapshotError(s, "tasks")
        \/ NoteRoom(MaxNotes) /\ WriteOk(s)
        \/ WriteFail(s)
        \/ \E a \in SyncArgs :
              WriteRoom(s, 1, MaxWrites) /\ SetterCall(s, "tasks", a[1], a[2])

SpecSync == InitSync /\ [][NextSync]_vars

-----------------------------------------------------------------------------
(* Claims about the Sync Binding.                                           *)

\* The value a setter call with argument <<isFn, arg>> is to store, given the
\* binding's current local value.
NewValueOf(a, current) ==
    IF a[1]
    THEN (IF a[2] = "toggleAll"
          THEN [i \in 1..Len(current) |->
                  [current[i] EXCEPT !.status =
                     IF current[i].status = "Done" THEN "Not Started" ELSE "Done"]]
          ELSE current)
    ELSE a[2]

\* writes q with one more setDoc of value v to document d at its end
OneMoreWrite(q, qNext, d, v) ==
    /\ Len(qNext) = Len(q) + 1
    /\ SubSeq(qNext, 1, Len(q)) = q
    /\ qNext[Len(qNext)].doc = d
    /\ qNext[Len(qNext)].value = v

\* The step is a call of the setter of binding d by session s with argument a.
\* (The first conjunct tells the written document before the values, which
\* differ in shape between documents, are compared.)
IsSetterCall(s, d, a) ==
    /\ writes'[s] # writes[s] =>
          /\ Len(writes'[s]) = Len(writes[s]) + 1
          /\ writes'[s][Len(writes'[s])].doc = d
    /\ SetterCall(s, d, a[1], a[2])

\* C8 as stated: every setter call from a rendered view sets the local value
\* to the new value (or the function applied to the current local value) and
\* issues one write of that same value to the remote document.
C8_EverySetterCallWrites ==
    [][\A s \in Sessions, d \in EditedDocs : \A a \in SetterArgs(d) :
          IsSetterCall(s, d, a) =>
             /\ data'[s][d] = NewValueOf(a, data[s][d])
             /\ OneMoreWrite(writes[s], writes'[s], d, NewValueOf(a, data[s][d]))]_vars

\* C8 amended: every setter call from a rendered view sets the local value to
\* the new value (or the function applied to the current local value); it
\* issues one write of that same value when a user is signed in, and no write
\* when no user is signed in.
C8_SetterWritesWhenSignedIn ==
    [][\A s \in Sessions, d \in EditedDocs : \A a \in SetterArgs(d) :
          IsSetterCall(s, d, a) =>
             /\ data'[s][d] = NewValueOf(a, data[s][d])
             /\ \A e \in Docs \ {d} : data'[s][e] = data[s][e]
             /\ IF user[s] # NoUser
                THEN OneMoreWrite(writes[s], writes'[s], d, NewValueOf(a, data[s][d]))
                ELSE writes'[s] = writes[s]]_vars

\* C8 witness: a signed-in session with a rendered view whose setter call with
\* a function argument is in flight and whose local value is the written value.
C8_Witness ==
    \E s \in Sessions :
        /\ ViewRendered(s) /\ user[s] = Uid
        /\ writes[s] # <<>>
        /\ Head(writes[s]).caught
        /\ Head(writes[s]).doc = "tasks"
        /\ Head(writes[s]).value = <<[SampleTask EXCEPT !.status = "Done"]>>
        /\ data[s]["tasks"] = Head(writes[s]).value

\* C9: when a write issued by a setter is rejected, no local value changes
\* (no rollback, no other binding touched), the write leaves the queue and no
\* write is added (no retry), and neither the remote documents nor the queued
\* notifications change; afterwards a local value changes only through a
\* setter call or a delivered notification.
C9_WriteFailureLeavesLocal ==
    [][/\ \A s \in Sessions :
             WriteFail(s) =>
                /\ data' = data
                /\ writes'[s] = Tail(writes[s])
                /\ \A t \in Sessions \ {s} : writes'[t] = writes[t]
                /\ remote' = remote
                /\ snapshots' = snapshots
       /\ \A s \in Sessions, d \in Docs :
             data'[s][d] # data[s][d] =>
                \/ \E a \in SetterArgs(d) : SetterCall(s, d, a[1], a[2])
                \/ Deliver(s, d)]_vars

\* C9 witness: after a rejected setter write nothing is in flight or queued
\* and the local value of tasks differs from the remote one.
C9_Witness ==
    /\ "setDoc rejected" \in console[1]
    /\ writes[1] = <<>>
    /\ \A d \in Docs : snapshots[1][d] = <<>>
    /\ "tasks" \in listening[1]
    /\ remote["tasks"].exists
    /\ data[1]["tasks"] # remote["tasks"].value

\* Nothing is in flight: no setDoc call and no notification.
Quiescent ==
    /\ \A s \in Sessions : writes[s] = <<>>
    /\ \A s \in Sessions, d \in Docs : snapshots[s][d] = <<>>

\* Every notification of an existing document replaces the local value.
NotificationReplacesLocal ==
    \A s \in Sessions, d \in Docs :
        (Deliver(s, d) /\ Head(snapshots[s][d]).exists) =>
            data'[s][d] = Head(snapshots[s][d]).value

-----------------------------------------------------------------------------
(* Specifications of the handlers and the derived state on one session      *)
(* whose auth callback reported no user: the views are rendered and the     *)
(* setters keep the values locally.                                         *)

DefaultValues == [d \in Docs |-> initialValue(d)]

\* Session 1 renders its views with the local values given; session 2 has
\* only loaded the page.
LocalSession(values, date, clock, tz) ==
    /\ auth = [s \in Sessions |-> TRUE]
    /\ db = [s \in Sessions |-> TRUE]
    /\ user = [s \in Sessions |-> NoUser]
    /\ loadingAuth = [s \in Sessions |-> s # 1]
    /\ data = [s \in Sessions |-> IF s = 1 THEN values ELSE DefaultValues]
    /\ initialized = [s \in Sessions |-> [d \in Docs |-> FALSE]]
    /\ listening = [s \in Sessions |-> {}]
    /\ remote = [d \in Docs |-> Absent]
    /\ writes = [s \in Sessions |-> <<>>]
    /\ snapshots = [s \in Sessions |-> [d \in Docs |-> <<>>]]
    /\ console = [s \in Sessions |-> {}]
    /\ selectedDate = [s \in Sessions |-> IF s = 1 THEN date ELSE getTodayStr(clock, tz)]
    /\ now = clock
    /\ tzOffset = tz
    /\ alert = <<>>

NewTask(id, date, category, estTime) ==
    [id |-> toString(id), date |-> date, title |-> "Plan", category |-> category,
     subCategory |-> "General", estTime |-> estTime, status |-> "Not Started"]

-----------------------------------------------------------------------------
(* SpecNextDay: saveReflection rolls one unfinished task over, for every    *)
(* date of two years and a range of time zones.                             *)

FirstYear == 2023
LastYear == 2024

CalendarDates ==
    {<<y, m, d>> : y \in FirstYear..LastYear, m \in 1..12, d \in 1..31} \cap
    {c \in (FirstYear..LastYear) \X (1..12) \X (1..31) : c[3] <= DaysInMonth(c[1], c[2])}

\* Zone offsets in minutes east of UTC, from UTC-12:00 to UTC+14:00: zones
\* without a change of offset overnight, and zones entering or leaving
\* daylight-saving time between the two noons.
Zones ==
    {<<o, o>> : o \in {-720, -660, -480, -300, 0, 60, 330, 345, 570, 720, 765, 780, 840}}
    \cup {<<-300, -240>>, <<-240, -300>>, <<60, 120>>, <<120, 60>>,
          <<720, 780>>, <<780, 720>>}

InitNextDay ==
    \E date \in CalendarDates, tz \in Zones :
        LocalSession([DefaultValues EXCEPT !["tasks"] = <<NewTask(1, date, "Work", 30)>>],
                     date, DateLocalNoon(date, tz), tz)

NextNextDay ==
    \E recycle \in SUBSET {toString(1)} :
        saveReflection(1, 50, 5, FALSE, "", recycle)

SpecNextDay == InitNextDay /\ [][NextNextDay]_vars

\* The calendar day after y-m-d, by the lengths of the months.
NextCalendarDay(date) ==
    IF date[3] < DaysInMonth(date[1], date[2]) THEN <<date[1], date[2], date[3] + 1>>
    ELSE IF date[2] < 12 THEN <<date[1], date[2] + 1, 1>>
    ELSE <<date[1] + 1, 1, 1>>

\* C4: for every valid date string and every zone offset getNextDayStr returns
\* the date of the following calendar day, so that once a reflection save has
\* reported a rolled-over task, that task is dated the day after the selected
\* date.
C4_NextDayIsFollowingCalendarDay ==
    Len(alert) = 2 =>
        /\ getNextDayStr(selectedDate[1], tzOffset) = NextCalendarDay(selectedDate[1])
        /\ data[1]["tasks"][1].date = NextCalendarDay(selectedDate[1])

-----------------------------------------------------------------------------
(* SpecOverload: tasks of 60 and 120 minutes added on two dates.            *)

MaxOverloadTasks == 7

Tomorrow == NextCalendarDay(Today)

InitOverload == LocalSession(DefaultValues, Today, NowAtLoad, <<0, 0>>)

NextOverload ==
    \/ /\ Len(data[1]["tasks"]) < MaxOverloadTasks
       /\ \E estTime \in {600, 1200} :
             handleAddTask(1, "Household", "Admin", "Plan", estTime)
    \/ \E date \in {Today, Tomorrow} : SelectDate(1, date)

SpecOverload == InitOverload /\ [][NextOverload]_vars

\* Sum of the estimates of the tasks at the positions in idx.
RECURSIVE SumEstimates(_, _)
SumEstimates(tasks, idx) ==
    IF idx = {} THEN 0
    ELSE LET i == CHOOSE j \in idx : TRUE
         IN  tasks[i].estTime + SumEstimates(tasks, idx \ {i})

\* The positions of the tasks dated on the selected date.
ViewedPositions(tasks, date) == {i \in 1..Len(tasks) : tasks[i].date = date}

\* The k-th smallest element of a set of numbers.
Nth(idx, k) == CHOOSE i \in idx : Cardinality({j \in idx : j < i}) = k - 1

\* C1: the viewed tasks are the tasks dated on the selected date, in list
\* order, and isOverloaded is true if and only if their estimates sum to more
\* than 480 minutes or there are more than 6 of them.
C1_OverloadedIffOverThreshold ==
    LET tasks == data[1]["tasks"]
        idx == ViewedPositions(tasks, selectedDate[1])
        viewed == viewedTasks(tasks, selectedDate[1])
    IN  /\ viewed = [k \in 1..Cardinality(idx) |-> tasks[Nth(idx, k)]]
        /\ overloadStats(viewed).isOverloaded <=>
              (SumEstimates(tasks, idx) > 480 \/ Cardinality(idx) > 6)

\* C1 witness: six viewed tasks of 480 minutes in all, with a task of another
\* date among them in the list, are not overloaded.
C1_Witness ==
    LET tasks == data[1]["tasks"]
        idx == ViewedPositions(tasks, selectedDate[1])
    IN  /\ Cardinality(idx) = 6
        /\ SumEstimates(tasks, idx) = 480
        /\ Len(tasks) = 7
        /\ tasks[2].date # selectedDate[1]
        /\ ~overloadStats(viewedTasks(tasks, selectedDate[1])).isOverloaded

-----------------------------------------------------------------------------
(* Specifications of the handlers on a signed-in session whose bindings are *)
(* initialized and listening.                                               *)

\* Session 1 is signed in with the stored documents loaded; session 2 has
\* only loaded the page.
SignedInSession(values, date) ==
    /\ auth = [s \in Sessions |-> TRUE]
    /\ db = [s \in Sessions |-> TRUE]
    /\ user = [s \in Sessions |-> IF s = 1 THEN Uid ELSE NoUser]
    /\ loadingAuth = [s \in Sessions |-> s # 1]
    /\ data = [s \in Sessions |-> IF s = 1 THEN values ELSE DefaultValues]
    /\ initialized = [s \in Sessions |-> [d \in Docs |-> s = 1]]
    /\ listening = [s \in Sessions |-> IF s = 1 THEN Docs ELSE {}]
    /\ remote = [d \in Docs |-> Snap(values[d])]
    /\ writes = [s \in Sessions |-> <<>>]
    /\ snapshots = [s \in Sessions |-> [d \in Docs |-> <<>>]]
    /\ console = [s \in Sessions |-> {}]
    /\ selectedDate = [s \in Sessions |-> IF s = 1 THEN date ELSE Today]
    /\ now = NowAtLoad
    /\ tzOffset = <<0, 0>>
    /\ alert = <<>>

-----------------------------------------------------------------------------
(* SpecCategories: tasks added under two main categories with an empty, a   *)
(* listed and an unlisted sub-category, starting from the default           *)
(* categories.                                                              *)

MaxAdded == 2            \* tasks added
MaxHandlerWrites == 2    \* setDoc calls in flight

FormMainCats == {"Work", "Household"}
FormSubCategories == {"", "Admin"}

InitCategories == SignedInSession(DefaultValues, Today)

NextCategories ==
    \/ /\ Len(data[1]["tasks"]) < MaxAdded
       /\ WriteRoom(1, 2, MaxHandlerWrites)
       /\ \E mainCat \in FormMainCats, subCategory \in FormSubCategories :
             handleAddTask(1, mainCat, subCategory, "Plan", 300)
    \/ \E d \in Docs : Deliver(1, d)
    \/ NoteRoom(MaxNotes) /\ WriteOk(1)
    \/ WriteFail(1)

SpecCategories == InitCategories /\ [][NextCategories]_vars

\* q holds no element twice
NoDuplicates(q) == \A i, j \in 1..Len(q) : q[i] = q[j] => i = j

\* The sub-category a task gets from the form's sub-category text.
SubCategoryOf(text) == IF text = "" THEN "General" ELSE text

\* The step is handleAddTask of session s with the main category and the
\* sub-category text given. (The first conjunct counts the setDoc calls before
\* their values, which differ in shape between documents, are compared.)
IsAddTask(s, mainCat, subCategory) ==
    /\ Len(writes'[s]) - Len(writes[s]) =
          IF SubCategoryOf(subCategory) \in SeqToSet(data[s]["categories_v2"][mainCat])
          THEN 1 ELSE 2
    /\ handleAddTask(s, mainCat, subCategory, "Plan", 300)

\* C5: after any sequence of add-task operations from the default categories
\* no sub-category list holds a sub-category twice; adding a task whose
\* sub-category is not in its main category's list appends it once at the end
\* of that list and leaves the other lists unchanged, and adding a task whose
\* sub-category is in the list leaves the categories unchanged.
C5_SubCategoriesGrowWithoutDuplicates ==
    /\ [](\A c \in DOMAIN data[1]["categories_v2"] :
             NoDuplicates(data[1]["categories_v2"][c]))
    /\ [][\A mainCat \in FormMainCats, subCategory \in FormSubCategories :
            IsAddTask(1, mainCat, subCategory) =>
               LET before == data[1]["categories_v2"]
                   after == data'[1]["categories_v2"]
                   subCat == SubCategoryOf(subCategory)
               IN  IF \E i \in 1..Len(before[mainCat]) : before[mainCat][i] = subCat
                   THEN after = before
                   ELSE /\ DOMAIN after = DOMAIN before
                        /\ after[mainCat] = before[mainCat] \o <<subCat>>
                        /\ \A c \in DOMAIN before \ {mainCat} : after[c] = before[c]]_vars

\* C5 witness: two tasks were added under Work with an empty sub-category, and
\* Work's list is the default list with General once at its end.
C5_Witness ==
    /\ Len(data[1]["tasks"]) >= 2
    /\ \A i \in 1..2 : /\ data[1]["tasks"][i].category = "Work"
                        /\ data[1]["tasks"][i].subCategory = "General"
    /\ data[1]["categories_v2"]["Work"] = defaultCategories["Work"] \o <<"General">>
    /\ data[1]["categories_v2"]["Household"] = defaultCategories["Household"]

-----------------------------------------------------------------------------
(* SpecReflect: reflections saved on two dates over three tasks that are    *)
(* toggled and rolled over.                                                 *)

StoredReflection(date, mood) ==
    [id |-> toString(1), date |-> date, completion |-> 80, mood |-> mood,
     overloaded |-> TRUE, notes |-> "ok"]

\* The reflections stored at the start: none, or one for each date.
StoredReflections ==
    {<<>>, <<StoredReflection(Today, 4), StoredReflection(Tomorrow, 4)>>}

ReflectTasks ==
    <<NewTask(1, Today, "Work", 30), NewTask(2, Today, "Work", 45),
      NewTask(3, Tomorrow, "Learning", 60)>>
ReflectIds == {toString(1), toString(2), toString(3)}
FormMoods == {4, 7}

InitReflect ==
    \E refs \in StoredReflections :
        LocalSession([DefaultValues EXCEPT !["tasks"] = ReflectTasks,
                                           !["reflections"] = refs],
                     Today, NowAtLoad, <<0, 0>>)

NextReflect ==
    \/ \E mood \in FormMoods, recycle \in SUBSET ReflectIds :
          saveReflection(1, 50, mood, FALSE, "", recycle)
    \/ \E id \in ReflectIds : toggleTaskStatus(1, id)
    \/ \E date \in {Today, Tomorrow} : SelectDate(1, date)

SpecReflect == InitReflect /\ [][NextReflect]_vars

\* The step is saveReflection of session s with the mood and the checked
\* recycle boxes given. (The first conjunct tells the alert's shape before the
\* alerts are compared.)
IsSaveReflection(s, mood, recycle) ==
    /\ Len(alert') =
          IF \E i \in 1..Len(data[s]["tasks"]) :
                Recycled(data[s]["tasks"][i], selectedDate[s], recycle)
          THEN 2 ELSE 1
    /\ saveReflection(s, 50, mood, FALSE, "", recycle)

\* The positions of the reflections of a date.
ReflectionsOf(reflections, date) ==
    {i \in 1..Len(reflections) : reflections[i].date = date}

\* C2: after any sequence of saveReflection operations the reflections list
\* holds at most one reflection per date; a save for the selected date leaves
\* exactly one reflection for that date, the one just saved, and leaves the
\* reflections of every other date as they were, in their order.
C2_OneReflectionPerDate ==
    /\ [](\A date \in {Today, Tomorrow} :
             Cardinality(ReflectionsOf(data[1]["reflections"], date)) <= 1)
    /\ [][\A mood \in FormMoods, recycle \in SUBSET ReflectIds :
            IsSaveReflection(1, mood, recycle) =>
               LET before == data[1]["reflections"]
                   after == data'[1]["reflections"]
                   D == selectedDate[1]
               IN  /\ Cardinality(ReflectionsOf(after, D)) = 1
                   /\ \A i \in ReflectionsOf(after, D) :
                         /\ after[i].mood = mood
                         /\ after[i].completion = 50
                         /\ after[i].overloaded = FALSE
                         /\ after[i].notes = ""
                   /\ SelectSeq(after, LAMBDA r : r.date # D) =
                      SelectSeq(before, LAMBDA r : r.date # D)]_vars

\* C2 witness: the stored reflection of today was replaced by a saved one, and
\* the stored reflection of tomorrow is as it was.
C2_Witness ==
    /\ Len(data[1]["reflections"]) = 2
    /\ data[1]["reflections"][1] = StoredReflection(Tomorrow, 4)
    /\ data[1]["reflections"][2].date = Today
    /\ data[1]["reflections"][2].mood = 7
    /\ data[1]["reflections"][2].notes = ""

\* C3: on saveReflection with selected date D every task dated D, not Done and
\* with its recycle box checked gets the computed next day as its date and
\* keeps its other fields; every other task is unchanged; the number and the
\* order of the tasks do not change.
C3_RolloverFrame ==
    [][\A mood \in FormMoods, recycle \in SUBSET ReflectIds :
          IsSaveReflection(1, mood, recycle) =>
             LET before == data[1]["tasks"]
                 after == data'[1]["tasks"]
                 D == selectedDate[1]
             IN  /\ Len(after) = Len(before)
                 /\ \A i \in 1..Len(before) :
                       IF /\ before[i].date = D
                          /\ before[i].status # "Done"
                          /\ before[i].id \in recycle
                       THEN /\ after[i].date = getNextDayStr(D, tzOffset)
                            /\ after[i].id = before[i].id
                            /\ after[i].title = before[i].title
                            /\ after[i].category = before[i].category
                            /\ after[i].subCategory = before[i].subCategory
                            /\ after[i].estTime = before[i].estTime
                            /\ after[i].status = before[i].status
                       ELSE after[i] = before[i]]_vars

\* C3 witness: a save on today rolled the first task over to tomorrow and left
\* the second, unfinished and of today, and the third, done and of tomorrow,
\* where they were.
C3_Witness ==
    /\ alert = <<"Reflection saved! Rolled over", 1>>
    /\ selectedDate[1] = Today
    /\ data[1]["tasks"][1] = [ReflectTasks[1] EXCEPT !.date = Tomorrow]
    /\ data[1]["tasks"][2] = ReflectTasks[2]
    /\ data[1]["tasks"][3] = [ReflectTasks[3] EXCEPT !.status = "Done"]

-----------------------------------------------------------------------------
(* Derived state of the dashboard view.                                     *)

maxPoints == 7
DefaultMood == 5

\* [...reflections].sort((a, b) => new Date(a.date) - new Date(b.date)):
\* the sort is stable, so each element goes behind those that do not compare
\* greater.
RECURSIVE SortedByDate(_)
SortedByDate(q) ==
    IF q = <<>> THEN <<>>
    ELSE LET front == SortedByDate(SubSeq(q, 1, Len(q) - 1))
             r == q[Len(q)]
             k == Cardinality({i \in 1..Len(front) :
                                 DateUTC(front[i].date) - DateUTC(r.date) <= 0})
         IN  SubSeq(front, 1, k) \o <<r>> \o SubSeq(front, k + 1, Len(front))

\* q.slice(-n)
SliceLast(q, n) == SubSeq(q, Max({1, Len(q) - n + 1}), Len(q))

\* last7Reflections taken from the front of the sorted list
last7Reflections_FirstSeven(reflections) ==
    SubSeq(SortedByDate(reflections), 1,
           IF Len(reflections) < maxPoints THEN Len(reflections) ELSE maxPoints)

last7Reflections(reflections) == SliceLast(SortedByDate(reflections), maxPoints)

\* Array(maxPoints - last7Reflections.length).fill(5).concat(moods)
paddedMoods(reflections) ==
    LET last7 == last7Reflections(reflections)
    IN  [i \in 1..(maxPoints - Len(last7)) |-> DefaultMood] \o
        [i \in 1..Len(last7) |-> last7[i].mood]

-----------------------------------------------------------------------------
(* SpecMood: stored reflections on consecutive dates across the end of a    *)
(* month, in several list orders, and reflections saved on two of the dates.*)

MaxMoodDates == 8

\* The k-th date, from 2024-03-27 on.
MoodDate(k) == CivilFromDays(DaysFromCivil(2024, 3, 27) + k - 1)

\* The mood stored with the reflection of the k-th date.
StoredMood(k) == <<8, 6, 7, 3, 1, 4, 10, 2, 9, 5>>[((k - 1) % 10) + 1]

\* The k-th smallest and the k-th largest element of a set of numbers.
Ascending(S) == [k \in 1..Cardinality(S) |-> Nth(S, k)]
Descending(S) == [k \in 1..Cardinality(S) |-> Nth(S, Cardinality(S) + 1 - k)]

\* The stored lists: the reflections of any of the dates, oldest first, newest
\* first, or those of the even dates before those of the odd ones.
StoredOrders(S) ==
    {Ascending(S), Descending(S),
     Ascending({k \in S : k % 2 = 0}) \o Descending({k \in S : k % 2 = 1})}

InitMood ==
    \E S \in SUBSET (1..MaxMoodDates) : \E order \in StoredOrders(S) :
        LocalSession(
            [DefaultValues EXCEPT !["reflections"] =
                [i \in 1..Len(order) |->
                    StoredReflection(MoodDate(order[i]), StoredMood(order[i]))]],
            Today, NowAtLoad, <<0, 0>>)

NextMood ==
    \/ \E mood \in {2, 7} : saveReflection(1, 50, mood, FALSE, "", {})
    \/ \E date \in {Today, Tomorrow} : SelectDate(1, date)

SpecMood == InitMood /\ [][NextMood]_vars

\* Date a is a later calendar date than date b.
LaterDate(a, b) ==
    \/ a[1] > b[1]
    \/ a[1] = b[1] /\ a[2] > b[2]
    \/ a[1] = b[1] /\ a[2] = b[2] /\ a[3] > b[3]

\* C6: the mood trend has exactly 7 entries; with k the number of reflections,
\* 7 at most, its last k entries are the moods of the k reflections with the
\* latest dates, the latest last, and its first 7 - k entries are 5.
C6_MoodTrendPadded ==
    LET refs == data[1]["reflections"]
        trend == paddedMoods(refs)
        k == IF Len(refs) < 7 THEN Len(refs) ELSE 7
    IN  /\ Len(trend) = 7
        /\ \A i \in 1..(7 - k) : trend[i] = 5
        /\ \A j \in 1..k :
              \E i \in 1..Len(refs) :
                 /\ Cardinality({x \in 1..Len(refs) :
                                   LaterDate(refs[x].date, refs[i].date)}) = k - j
                 /\ trend[7 - k + j] = refs[i].mood

\* C6 witness: with the reflections of the first two dates stored newest
\* first (moods 6 and 8) and one of mood 7 saved today, the moods by date are
\* 8, 6, 7 and the trend is 5, 5, 5, 5, 8, 6, 7.
C6_Witness ==
    /\ alert = <<"Reflection saved successfully.">>
    /\ Len(data[1]["reflections"]) = 3
    /\ data[1]["reflections"][1] = StoredReflection(MoodDate(2), 6)
    /\ data[1]["reflections"][2] = StoredReflection(MoodDate(1), 8)
    /\ data[1]["reflections"][3].date = Today
    /\ paddedMoods(data[1]["reflections"]) = <<5, 5, 5, 5, 8, 6, 7>>

-----------------------------------------------------------------------------
(* Weekly time distribution of the dashboard view.                          *)

WeekDays == 7

\* const last7DaysDate = new Date(); setDate(getDate() - 7), in a zone whose
\* offset does not change over the week
last7DaysDate(clock) == clock - WeekDays * MinutesPerDay

\* tasks.filter(t => new Date(t.date) >= last7DaysDate)
weeklyTasks(tasks, clock) ==
    SelectSeq(tasks, LAMBDA t : DateUTC(t.date) >= last7DaysDate(clock))

\* The sum of parseInt(t.estTime) || 0 over the tasks of q whose category is cat.
RECURSIVE TimeOfCategory(_, _)
TimeOfCategory(q, cat) ==
    IF q = <<>> THEN 0
    ELSE (IF Head(q).category = cat THEN ParseIntOrZero(Head(q).estTime) ELSE 0)
         + TimeOfCategory(Tail(q), cat)

\* weeklyTimeByCategory: a bucket for every main category and for every
\* category of a weekly task
weeklyTimeByCategory(categories, weekly) ==
    [cat \in DOMAIN categories \cup {weekly[i].category : i \in 1..Len(weekly)} |->
        TimeOfCategory(weekly, cat)]

RECURSIVE SumOver(_, _)
SumOver(f, keys) ==
    IF keys = {} THEN 0
    ELSE LET k == CHOOSE x \in keys : TRUE
         IN  f[k] + SumOver(f, keys \ {k})

\* Object.values(weeklyTimeByCategory).reduce((a,b)=>a+b, 0) || 1
totalWeeklyTime(buckets) ==
    LET sum == SumOver(buckets, DOMAIN buckets)
    IN  IF sum = 0 THEN 1 ELSE sum

\* {totalWeeklyTime > 1 ? chart and legend : 'No tasks this week'}
DistributionShown(buckets) == totalWeeklyTime(buckets) > 1

\* Math.round(x) for x = num / den with den > 0: the integer nearest to x,
\* halves upwards
RoundDiv(num, den) == (2 * num + den) \div (2 * den)

\* Math.round((time / totalWeeklyTime) * 100), with totalWeeklyTime > 1
Percentage(time, total) == RoundDiv(100 * time, total)

\* The legend: the buckets with time > 0 and their percentages; nothing when
\* the distribution is not shown.
Legend(buckets) ==
    IF DistributionShown(buckets)
    THEN [cat \in {c \in DOMAIN buckets : buckets[c] > 0} |->
             Percentage(buckets[cat], totalWeeklyTime(buckets))]
    ELSE <<>>

-----------------------------------------------------------------------------
(* SpecWeekly: tasks of 1, 30 and -30 minutes added under two main          *)
(* categories, today and on a date more than a week ago.                    *)

MaxWeeklyTasks == 3

LongAgo == CivilFromDays(DaysFromCivil(Today[1], Today[2], Today[3]) - WeekDays - 1)

InitWeekly == LocalSession(DefaultValues, Today, NowAtLoad, <<0, 0>>)

NextWeekly ==
    \/ /\ Len(data[1]["tasks"]) < MaxWeeklyTasks
       /\ \E mainCat \in {"Work", "Learning"}, estTime \in {10, 300, -300} :
             handleAddTask(1, mainCat, "", "Plan", estTime)
    \/ \E date \in {Today, LongAgo} : SelectDate(1, date)

SpecWeekly == InitWeekly /\ [][NextWeekly]_vars

\* C7 as stated: whenever the estimates of the weekly tasks sum to more than 0
\* minutes, the distribution is shown and the percentages of the non-zero
\* buckets sum to 100 within half a point for each of them; when they sum to
\* 0, no percentage other than 0 is shown.
C7_PercentagesShownWhenPositive ==
    LET weekly == weeklyTasks(data[1]["tasks"], now)
        buckets == weeklyTimeByCategory(data[1]["categories_v2"], weekly)
        sum == SumOver(buckets, DOMAIN buckets)
        legend == Legend(buckets)
    IN  /\ sum > 0 =>
              /\ DistributionShown(buckets)
              /\ DOMAIN legend = {c \in DOMAIN buckets : buckets[c] # 0}
              /\ 2 * SumOver(legend, DOMAIN legend) >= 200 - Cardinality(DOMAIN legend)
              /\ 2 * SumOver(legend, DOMAIN legend) <= 200 + Cardinality(DOMAIN legend)
        /\ sum = 0 => \A c \in DOMAIN legend : legend[c] = 0

-----------------------------------------------------------------------------
(* SpecFirstLoad: two sessions of a new user whose tasks document does not  *)
(* exist yet. Both are signed in and listening; the tasks binding of each   *)
(* awaits its first notification, which reports the document absent.        *)

InitFirstLoad ==
    /\ auth = [s \in Sessions |-> TRUE]
    /\ db = [s \in Sessions |-> TRUE]
    /\ user = [s \in Sessions |-> Uid]
    /\ loadingAuth = [s \in Sessions |-> FALSE]
    /\ data = [s \in Sessions |-> DefaultValues]
    /\ initialized = [s \in Sessions |-> [d \in Docs |-> d # "tasks"]]
    /\ listening = [s \in Sessions |-> Docs]
    /\ remote = [d \in Docs |-> IF d = "tasks" THEN Absent ELSE Snap(initialValue(d))]
    /\ writes = [s \in Sessions |-> <<>>]
    /\ snapshots = [s \in Sessions |->
                      [d \in Docs |-> IF d = "tasks" THEN <<Absent>> ELSE <<>>]]
    /\ console = [s \in Sessions |-> {}]
    /\ selectedDate = [s \in Sessions |-> Today]
    /\ now = NowAtLoad
    /\ tzOffset = <<0, 0>>
    /\ alert = <<>>

NextFirstLoad ==
    \E s \in Sessions :
        \/ WriteRoom(s, 1, MaxHandlerWrites) /\ Deliver(s, "tasks")
        \/ NoteRoom(MaxNotes) /\ WriteOk(s)
        \/ WriteFail(s)
        \/ \E a \in SyncArgs :
              WriteRoom(s, 1, MaxHandlerWrites) /\ SetterCall(s, "tasks", a[1], a[2])

SpecFirstLoad == InitFirstLoad /\ [][NextFirstLoad]_vars

\* The first notification of binding d of session s is handled as the
\* document's state demands: absent, the default is written and becomes the
\* local value; present, the payload becomes the local value and nothing is
\* written.
FirstNotificationHandled(s, d) ==
    (Deliver(s, d) /\ ~initialized[s][d]) =>
        IF Head(snapshots[s][d]).exists
        THEN /\ data'[s][d] = Head(snapshots[s][d]).value
             /\ writes'[s] = writes[s]
        ELSE /\ data'[s][d] = initialValue(d)
             /\ OneMoreWrite(writes[s], writes'[s], d, initialValue(d))

\* No write of the default that a first notification issued replaces the
\* value of a document that exists.
DefaultNeverOverwrites(s) ==
    (WriteOk(s) /\ ~Head(writes[s]).caught) =>
        LET d == Head(writes[s]).doc
        IN  remote[d].exists => remote'[d] = remote[d]

\* C11 as stated: on its first notification a binding writes the default and
\* takes it as local value when the document is absent, and takes the remote
\* value without writing when it is present, so that an existing remote value
\* is never overwritten by the default.
C11_DefaultNeverOverwritesExisting ==
    [][/\ \A s \in Sessions : FirstNotificationHandled(s, "tasks")
       /\ \A s \in Sessions : DefaultNeverOverwrites(s)]_vars

\* The handling of the first notification alone.
C11_FirstNotificationOnly ==
    [][\A s \in Sessions : FirstNotificationHandled(s, "tasks")]_vars

-----------------------------------------------------------------------------
(* The initialized flags and the loading gate, in Spec.                     *)

\* The step is the onSnapshot success callback of binding d of session s.
\* (The first conjuncts tell the binding before the values are compared.)
IsDeliver(s, d) ==
    /\ snapshots[s][d] # <<>>
    /\ Len(snapshots'[s][d]) = Len(snapshots[s][d]) - 1
    /\ Deliver(s, d)

\* C12: a binding's initialized flag becomes true when its first notification
\* or its first error is handled, and by nothing else, and never becomes false
\* again; while a user is signed in, a view is rendered only in states where
\* the flags of vision, categories_v2, goals, weeklyFocus, tasks and
\* reflections are all true.
C12_GateWaitsForAllBindings ==
    /\ [](\A s \in Sessions :
             (user[s] # NoUser /\ ViewRendered(s)) =>
                 \A d \in {"vision", "categories_v2", "goals", "weeklyFocus",
                            "tasks", "reflections"} : initialized[s][d])
    /\ [][\A s \in Sessions, d \in Docs :
             /\ (IsDeliver(s, d) \/ SnapshotError(s, d)) => initialized'[s][d]
             /\ initialized'[s][d] # initialized[s][d] =>
                   /\ initialized'[s][d]
                   /\ IsDeliver(s, d) \/ SnapshotError(s, d)]_vars

\* C12 witness: a signed-in session renders its views after the tasks
\* listener ended in an error and the other five bindings were notified.
C12_Witness ==
    /\ user[1] = Uid
    /\ ViewRendered(1)
    /\ "Snapshot error:" \in console[1]
    /\ "tasks" \notin listening[1]
    /\ \A d \in Docs : initialized[1][d]

-----------------------------------------------------------------------------
(* SpecStartup: one session from page load on, as Spec, with the tasks      *)
(* setter called from rendered views, and with the auth callback, once      *)
(* registered, running eventually.                                          *)

NextStartup ==
    \/ \E u \in {NoUser, Uid} : AuthStateChanged(1, u)
    \/ \E d \in Docs : WriteRoom(1, 1, MaxWrites) /\ Deliver(1, d)
    \/ \E d \in ErrorDocs : SnapshotError(1, d)
    \/ NoteRoom(MaxNotes) /\ WriteOk(1)
    \/ WriteFail(1)
    \/ \E a \in SetterArgs("tasks") :
          WriteRoom(1, 1, MaxWrites) /\ SetterCall(1, "tasks", a[1], a[2])

SpecStartup ==
    /\ Init
    /\ [][NextStartup]_vars
    /\ WF_vars(\E u \in {NoUser, Uid} : AuthStateChanged(1, u))

\* C13 as stated: when the store initialization failed at startup, the
\* session eventually leaves the loading screen and renders its views, no
\* listener is registered and no write is issued, and the local values change
\* only by setter calls from its rendered views.
C13_DegradedModeRenders ==
    /\ []((~auth[1] /\ ~db[1]) => (listening[1] = {} /\ writes[1] = <<>>))
    /\ [][\A d \in Docs :
             (~auth[1] /\ ~db[1] /\ data'[1][d] # data[1][d]) =>
                 /\ ViewRendered(1)
                 /\ d = "tasks"
                 /\ \E a \in SetterArgs(d) : data'[1][d] = NewValueOf(a, data[1][d])]_vars
    /\ (~auth[1] /\ ~db[1]) ~> ViewRendered(1)

-----------------------------------------------------------------------------
(* The error callback of a listener, in Spec.                               *)

\* C14 as stated: when a binding's listener reports an error, before or after
\* earlier notifications, its initialized flag is true afterwards and its
\* local value is the provided default.
C14_ErrorFallsBackToDefault ==
    [][\A s \in Sessions, d \in Docs :
          SnapshotError(s, d) =>
             /\ initialized'[s][d]
             /\ data'[s][d] = initialValue(d)]_vars

\* C14 amended: when a binding's listener reports an error, its initialized
\* flag is true afterwards and no local value is changed by the error: the
\* binding keeps the value it had, which is the provided default only until a
\* notification or a setter call has replaced it.
C14_ErrorKeepsLocalValue ==
    [][\A s \in Sessions, d \in Docs :
          SnapshotError(s, d) =>
             /\ initialized'[s][d]
             /\ data' = data]_vars

\* C14 witness: the tasks listener reported an error after a notification had
\* delivered the stored list; the binding is initialized and holds that list.
C14_Witness ==
    /\ "Snapshot error:" \in console[1]
    /\ "tasks" \notin listening[1]
    /\ user[1] = Uid
    /\ initialized[1]["tasks"]
    /\ data[1]["tasks"] = <<SampleTask>>
    /\ data[1]["tasks"] # initialValue("tasks")

-----------------------------------------------------------------------------
(* SpecClobber: two sessions holding the same stored tasks list, each       *)
(* adding a task of its own; session 1 adds under a new sub-category.       *)

FormOf(s) ==
    IF s = 1 THEN [subCategory |-> "", title |-> "Plan"]
    ELSE [subCategory |-> "Social Media", title |-> "Call"]

NextClobber ==
    \E s \in Sessions :
        \/ /\ Len(data[s]["tasks"]) < Len(StoredValue("tasks")) + MaxAdded
           /\ WriteRoom(s, 2, MaxHandlerWrites)
           /\ handleAddTask(s, "Work", FormOf(s).subCategory, FormOf(s).title, 300)
        \/ \E d \in Docs : Deliver(s, d)
        \/ NoteRoom(MaxNotes) /\ WriteOk(s)
        \/ WriteFail(s)

SpecClobber == InitSync /\ [][NextClobber]_vars

\* C15: a write that the store applies replaces the whole value of its
\* document by the written value, whatever the document held, and changes no
\* other document: the last writer wins.
C15_LastWriterWins ==
    [][\A s \in Sessions :
          WriteOk(s) =>
             /\ remote'[Head(writes[s]).doc] = Snap(Head(writes[s]).value)
             /\ \A d \in Docs \ {Head(writes[s]).doc} : remote'[d] = remote[d]]_vars

\* C15 witness: session 1 added a task (its new sub-category is stored) and
\* session 2 added one; no write failed and nothing is in flight; the stored
\* list and both local lists hold session 2's task and not session 1's.
C15_Witness ==
    /\ Quiescent
    /\ \A s \in Sessions : console[s] = {}
    /\ remote["categories_v2"].value["Work"] =
          defaultCategories["Work"] \o <<"General">>
    /\ Len(remote["tasks"].value) = 2
    /\ remote["tasks"].value[1] = SampleTask
    /\ remote["tasks"].value[2].title = "Call"
    /\ \A s \in Sessions : data[s]["tasks"] = remote["tasks"].value

-----------------------------------------------------------------------------
(* SpecTrailing: tasks added on dates around the start and the end of the   *)
(* trailing week, at several times of the day and in three time zones.      *)

\* The date k days after date (before it, for k < 0).
DayOffset(date, k) == CivilFromDays(DaysFromCivil(date[1], date[2], date[3]) + k)

\* The clock at load: midnight, 10:00 and 23:59 UTC of 2024-03-31.
TrailingClocks == {NowAtLoad - 600, NowAtLoad, NowAtLoad + 839}
TrailingZones == {<<0, 0>>, <<540, 540>>, <<-480, -480>>}

\* The dates picked, as days from today.
TrailingOffsets == {-8, -7, -6, 0, 1}

InitTrailing ==
    \E clock \in TrailingClocks, tz \in TrailingZones :
        LocalSession(DefaultValues, getTodayStr(clock, tz), clock, tz)

NextTrailing ==
    \/ /\ Len(data[1]["tasks"]) < MaxWeeklyTasks
       /\ handleAddTask(1, "Work", "Social Media", "Plan", 300)
    \/ \E k \in TrailingOffsets :
          SelectDate(1, DayOffset(getTodayStr(now, tzOffset), k))

SpecTrailing == InitTrailing /\ [][NextTrailing]_vars

\* The calendar day before y-m-d, by the lengths of the months.
PrevCalendarDay(date) ==
    IF date[3] > 1 THEN <<date[1], date[2], date[3] - 1>>
    ELSE IF date[2] > 1 THEN <<date[1], date[2] - 1, DaysInMonth(date[1], date[2] - 1)>>
    ELSE <<date[1] - 1, 12, 31>>

\* date is today or one of the k days before it
RECURSIVE WithinDaysBefore(_, _, _)
WithinDaysBefore(date, today, k) ==
    \/ date = today
    \/ k > 0 /\ WithinDaysBefore(date, PrevCalendarDay(today), k - 1)

\* C16 as stated: the weekly time distribution counts a task if and only if
\* its date is today or one of the 7 days before today; tasks dated more than
\* 7 days ago and tasks dated after today are not counted.
C16_TrailingWeekInclusive ==
    LET tasks == data[1]["tasks"]
        today == getTodayStr(now, tzOffset)
    IN  weeklyTasks(tasks, now) =
           SelectSeq(tasks, LAMBDA t : WithinDaysBefore(t.date, today, 7))

-----------------------------------------------------------------------------
(* The reminder banners of the daily and the reflection view.               *)

\* new Date().getHours() and new Date().getMinutes(), in local time
getHours(clock, tz) == ((clock + tz[1]) % MinutesPerDay) \div 60
getMinutes(clock, tz) == (clock + tz[1]) % 60

\* currentHour === 9 && currentMinute >= 30 && currentHour < 12
isMorningReviewTime(currentHour, currentMinute) ==
    currentHour = 9 /\ currentMinute >= 30 /\ currentHour < 12

\* currentHour >= 22 || (currentHour === 22 && currentMinute >= 30)
isEveningReflectionTime(currentHour, currentMinute) ==
    currentHour >= 22 \/ (currentHour = 22 /\ currentMinute >= 30)

\* {isMorningReviewTime && selectedDate === actualTodayStr && (banner)}
MorningBannerVisible(s) ==
    /\ ViewRendered(s)
    /\ isMorningReviewTime(getHours(now, tzOffset), getMinutes(now, tzOffset))
    /\ selectedDate[s] = getTodayStr(now, tzOffset)

\* {(isEveningReflectionTime || true) && (banner)}
EveningBannerVisible(s) ==
    /\ ViewRendered(s)
    /\ (isEveningReflectionTime(getHours(now, tzOffset), getMinutes(now, tzOffset))
         \/ TRUE)

\* A minute passes and the component renders again.
ClockTick ==
    /\ now' = now + 1
    /\ UNCHANGED <<auth, db, user, loadingAuth, data, initialized, listening,
                   remote, writes, snapshots, console, selectedDate, tzOffset, alert>>

-----------------------------------------------------------------------------
(* SpecReminders: a day and a night of renders, minute by minute, from      *)
(* 22:00 local time on, in two time zones.                                  *)

MaxTicks == 1439

ReminderZones == {<<0, 0>>, <<330, 330>>}

\* 22:00 local time of 2024-03-31
ClockAtTen(tz) == DateUTC(Today) + 22 * 60 - tz[1]

InitReminders ==
    \E tz \in ReminderZones : LocalSession(DefaultValues, Today, ClockAtTen(tz), tz)

NextReminders ==
    \/ now < ClockAtTen(tzOffset) + MaxTicks /\ ClockTick
    \/ \E date \in {Today, Tomorrow} : SelectDate(1, date)

SpecReminders == InitReminders /\ [][NextReminders]_vars

\* C17 as stated: the morning review predicate is true exactly from 09:30 to
\* 11:59 local time, the evening reflection predicate exactly from 22:00 on,
\* and each banner is visible only when its predicate is true.
C17_ReminderWindows ==
    LET h == getHours(now, tzOffset)
        m == getMinutes(now, tzOffset)
    IN  /\ isMorningReviewTime(h, m) <=> (570 <= 60 * h + m /\ 60 * h + m <= 719)
        /\ isEveningReflectionTime(h, m) <=> (60 * h + m >= 1320)
        /\ MorningBannerVisible(1) => isMorningReviewTime(h, m)
        /\ EveningBannerVisible(1) => isEveningReflectionTime(h, m)

\* The two predicates alone.
C17_PredicateWindows ==
    LET h == getHours(now, tzOffset)
        m == getMinutes(now, tzOffset)
    IN  /\ isMorningReviewTime(h, m) <=> (570 <= 60 * h + m /\ 60 * h + m <= 719)
        /\ isEveningReflectionTime(h, m) <=> (60 * h + m >= 1320)

-----------------------------------------------------------------------------
(* The count that saveReflection reports, in SpecNextDay and SpecReflect.   *)

\* The number of tasks whose date the step changes.
DatesChanged(s) ==
    Cardinality({i \in 1..Len(data[s]["tasks"]) :
                    data'[s]["tasks"][i].date # data[s]["tasks"][i].date})

\* After a saveReflection step the alert reports as many rolled-over tasks as
\* the step has changed dates, and a step that reports none leaves the tasks
\* list and the queue of writes as they were.
ReportedCountIsChangedCount(s) ==
    IF Len(alert') = 2
    THEN alert'[2] = DatesChanged(s)
    ELSE /\ DatesChanged(s) = 0
         /\ data'[s]["tasks"] = data[s]["tasks"]
         /\ \A i \in 1..Len(writes'[s]) : writes'[s][i].doc # "tasks"

\* C18 as stated: on every saveReflection the rolled-over count reported
\* equals the number of tasks whose date the operation changed; when it is 0
\* the tasks list is unchanged and no write to the tasks document is issued.
C18_ReportedCountIsChangedCount ==
    [][\A recycle \in SUBSET {toString(1)} :
          IsSaveReflection(1, 5, recycle) => ReportedCountIsChangedCount(1)]_vars

\* The same, for the saves of SpecReflect.
C18_ReportedCountInOneZone ==
    [][\A mood \in FormMoods, recycle \in SUBSET ReflectIds :
          IsSaveReflection(1, mood, recycle) => ReportedCountIsChangedCount(1)]_vars

-----------------------------------------------------------------------------
(* SpecTasks: tasks added, toggled and rolled over on two dates, with a     *)
(* clock that may or may not have advanced between two operations.          *)

MaxTaskAdds == 3
MaxTaskTicks == 1

TaskIds(tasks) == {tasks[i].id : i \in 1..Len(tasks)}

InitTasks == LocalSession(DefaultValues, Today, NowAtLoad, <<0, 0>>)

NextTasks ==
    \/ /\ Len(data[1]["tasks"]) < MaxTaskAdds
       /\ handleAddTask(1, "Work", "Social Media", "Plan", 300)
    \/ \E id \in TaskIds(data[1]["tasks"]) : toggleTaskStatus(1, id)
    \/ \E recycle \in SUBSET TaskIds(data[1]["tasks"]) :
          saveReflection(1, 50, 5, FALSE, "", recycle)
    \/ \E date \in {Today, Tomorrow} : SelectDate(1, date)
    \/ now < NowAtLoad + MaxTaskTicks /\ ClockTick

SpecTasks == InitTasks /\ [][NextTasks]_vars

\* C19: no local operation deletes a task. Every step keeps each task of the
\* list at its position with its identifier; add task lengthens the list by
\* exactly one; toggle status and save reflection keep its length.
C19_NoTaskDeleted ==
    [][LET before == data[1]["tasks"]
           after == data'[1]["tasks"]
       IN  /\ TaskIds(before) \subseteq TaskIds(after)
           /\ Len(after) >= Len(before)
           /\ \A i \in 1..Len(before) : after[i].id = before[i].id
           /\ handleAddTask(1, "Work", "Social Media", "Plan", 300) =>
                 Len(after) = Len(before) + 1
           /\ (\E id \in TaskIds(before) : toggleTaskStatus(1, id)) =>
                 Len(after) = Len(before)
           /\ (\E recycle \in SUBSET TaskIds(before) :
                  IsSaveReflection(1, 5, recycle)) =>
                 Len(after) = Len(before)]_vars

\* C19 witness: of three tasks added, the first was rolled over to tomorrow
\* and the second was toggled to Done; all three are in the list.
C19_Witness ==
    /\ Len(data[1]["tasks"]) = 3
    /\ data[1]["tasks"][1].date = Tomorrow
    /\ data[1]["tasks"][2].date = Today
    /\ data[1]["tasks"][2].status = "Done"
    /\ alert = <<"Reflection saved! Rolled over", 1>>

\* C20 as stated: after any sequence of add-task operations, with a clock
\* that may return the same value for two operations, no two tasks of the
\* list share an identifier.
C20_TaskIdsUnique ==
    \A i, j \in 1..Len(data[1]["tasks"]) :
        data[1]["tasks"][i].id = data[1]["tasks"][j].id => i = j

-----------------------------------------------------------------------------
(* SpecStale: two signed-in sessions edit the tasks document with up to two *)
(* writes in flight each, so that a notification of an older write can      *)
(* reach a session after its newer local mutation. Queued notification      *)
(* callbacks are run by the event loop: weak fairness of Deliver.           *)

MaxStaleWrites == 2

NextStale ==
    \E s \in Sessions :
        \/ Deliver(s, "tasks")
        \/ SnapshotError(s, "tasks")
        \/ NoteRoom(MaxNotes) /\ WriteOk(s)
        \/ WriteFail(s)
        \/ \E a \in SyncArgs :
              WriteRoom(s, 1, MaxStaleWrites) /\ SetterCall(s, "tasks", a[1], a[2])

SpecStale ==
    /\ InitSync
    /\ [][NextStale]_vars
    /\ \A s \in Sessions : WF_vars(Deliver(s, "tasks"))

\* The values the tasks document takes in SpecStale.
StaleValues == {a[2] : a \in SyncArgs}

\* A notification carrying value v is queued for the tasks binding of s.
NotificationQueued(s, v) ==
    \E i \in 1..Len(snapshots[s]["tasks"]) : snapshots[s]["tasks"][i] = Snap(v)

\* A write that succeeds queues a notification carrying the written value at
\* the end of the queue of every listener of the document, the writer's
\* included.
WriteSuccessNotifies ==
    \A s \in Sessions :
        WriteOk(s) =>
            \A t \in Sessions :
                Head(writes[s]).doc \in listening[t] =>
                    snapshots'[t][Head(writes[s]).doc] =
                        Append(snapshots[t][Head(writes[s]).doc],
                               Snap(Head(writes[s]).value))

-----------------------------------------------------------------------------
(* SpecSaveWrites: a signed-in session saves reflections with rollover; the *)
(* store accepts or rejects each of the writes on its own.                  *)

SavedTasks == <<NewTask(1, Today, "Work", 30), NewTask(2, Today, "Work", 45)>>
SavedIds == {toString(1), toString(2)}

InitSaveWrites ==
    \E refs \in StoredReflections :
        SignedInSession([DefaultValues EXCEPT !["tasks"] = SavedTasks,
                                              !["reflections"] = refs],
                        Today)

NextSaveWrites ==
    \/ /\ WriteRoom(1, 2, MaxHandlerWrites)
       /\ \E recycle \in SUBSET SavedIds : saveReflection(1, 50, 7, FALSE, "", recycle)
    \/ \E d \in {"tasks", "reflections"} : Deliver(1, d)
    \/ NoteRoom(MaxNotes) /\ WriteOk(1)
    \/ WriteFail(1)

SpecSaveWrites == InitSaveWrites /\ [][NextSaveWrites]_vars

\* The reflections list refs holds a reflection of the date with the mood.
HoldsReflection(refs, date, mood) ==
    \E i \in 1..Len(refs) : refs[i].date = date /\ refs[i].mood = mood

\* C22: saveReflection issues the write of the reflections list and, when a
\* task is rolled over, the write of the tasks list as two setDoc calls, in
\* this order, each with the value computed from the local lists at the
\* start of the operation; the store's answer to one of them (success or
\* rejection) touches neither the other document nor the other write.
C22_TwoIndependentWrites ==
    [][/\ \A recycle \in SUBSET SavedIds :
             IsSaveReflection(1, 7, recycle) =>
                LET tasks == data[1]["tasks"]
                    refs == data[1]["reflections"]
                    D == selectedDate[1]
                    rolled == {i \in 1..Len(tasks) :
                                 /\ tasks[i].date = D
                                 /\ tasks[i].status # "Done"
                                 /\ tasks[i].id \in recycle}
                    n == Len(writes[1])
                    q == writes'[1]
                IN  /\ Len(q) = n + (IF rolled = {} THEN 1 ELSE 2)
                    /\ SubSeq(q, 1, n) = writes[1]
                    /\ q[n + 1].doc = "reflections"
                    /\ Len(q[n + 1].value) =
                          Len(SelectSeq(refs, LAMBDA r : r.date # D)) + 1
                    /\ SubSeq(q[n + 1].value, 1, Len(q[n + 1].value) - 1) =
                          SelectSeq(refs, LAMBDA r : r.date # D)
                    /\ q[n + 1].value[Len(q[n + 1].value)].date = D
                    /\ q[n + 1].value[Len(q[n + 1].value)].mood = 7
                    /\ rolled # {} =>
                          /\ q[n + 2].doc = "tasks"
                          /\ Len(q[n + 2].value) = Len(tasks)
                          /\ \A i \in 1..Len(tasks) :
                                q[n + 2].value[i] =
                                   IF i \in rolled
                                   THEN [tasks[i] EXCEPT
                                           !.date = getNextDayStr(D, tzOffset)]
                                   ELSE tasks[i]
       /\ (WriteOk(1) \/ WriteFail(1)) =>
             /\ writes'[1] = Tail(writes[1])
             /\ \A d \in Docs \ {Head(writes[1]).doc} : remote'[d] = remote[d]
       /\ WriteFail(1) => remote' = remote
       /\ WriteOk(1) =>
             remote'[Head(writes[1]).doc] = Snap(Head(writes[1]).value)]_vars

\* C22 witness: after one save with the first task rolled over, the write of
\* the reflections succeeded and the write of the tasks was rejected: the
\* remote reflections hold the new reflection and the remote tasks their old
\* dates, with nothing left in flight.
C22_Witness ==
    /\ writes[1] = <<>>
    /\ console[1] = {"setDoc rejected"}
    /\ alert = <<"Reflection saved! Rolled over", 1>>
    /\ HoldsReflection(remote["reflections"].value, Today, 7)
    /\ remote["tasks"].value = SavedTasks
    /\ data[1]["tasks"][1].date = Tomorrow

\* The reverse state: the write of the reflections was rejected and the write
\* of the tasks succeeded.
C22_WitnessReverse ==
    /\ writes[1] = <<>>
    /\ console[1] = {"setDoc rejected"}
    /\ alert = <<"Reflection saved! Rolled over", 1>>
    /\ ~HoldsReflection(remote["reflections"].value, Today, 7)
    /\ remote["tasks"].value[1].date = Tomorrow
    /\ remote["tasks"].value[2].date = Today

-----------------------------------------------------------------------------
(* SpecToggle: toggleTaskStatus on lists of up to three tasks as the task   *)
(* form creates them, two of which may share an id (two adds in the same    *)
(* millisecond), with ids of the list and an id of no task.                 *)

MaxToggleTasks == 3

\* The ids the tasks of the lists have, and the ids toggleTaskStatus is called
\* with: the last one is the id of no task.
ToggleIds == {toString(i) : i \in 1..MaxToggleTasks}
ProbeIds == {toString(i) : i \in 1..(MaxToggleTasks + 1)}

ToggleLists ==
    UNION {[1..n -> {NewTask(i, Today, "Work", 30) : i \in 1..MaxToggleTasks}] :
             n \in 0..MaxToggleTasks}

InitToggle ==
    \E tasks \in ToggleLists :
        LocalSession([DefaultValues EXCEPT !["tasks"] = tasks],
                     Today, NowAtLoad, <<0, 0>>)

NextToggle == \E id \in ProbeIds : toggleTaskStatus(1, id)

SpecToggle == InitToggle /\ [][NextToggle]_vars

\* t with its status switched between 'Not Started' and 'Done'
Switched(t) ==
    [id |-> t.id, date |-> t.date, title |-> t.title, category |-> t.category,
     subCategory |-> t.subCategory, estTime |-> t.estTime,
     status |-> IF t.status = "Not Started" THEN "Done" ELSE "Not Started"]

\* C23: toggleTaskStatus(id) switches the status of the task with that id
\* between 'Not Started' and 'Done' and leaves its other fields and every
\* task of another id as they were, in place; no other local value changes;
\* applied twice with the same id it gives the tasks list back, and applied
\* with an id of no task it gives the tasks list unchanged.
C23_ToggleSwitchesOneStatus ==
    /\ [][\A id \in ProbeIds :
             toggleTaskStatus(1, id) =>
                LET before == data[1]["tasks"]
                    after == data'[1]["tasks"]
                IN  /\ Len(after) = Len(before)
                    /\ \A i \in 1..Len(before) :
                          /\ before[i].status \in {"Not Started", "Done"}
                          /\ after[i] = IF before[i].id = id
                                        THEN Switched(before[i])
                                        ELSE before[i]
                    /\ \A d \in Docs \ {"tasks"} : data'[1][d] = data[1][d]]_vars
    /\ [](\A id \in ProbeIds :
             LET tasks == data[1]["tasks"]
             IN  /\ ToggledTasks(ToggledTasks(tasks, id), id) = tasks
                 /\ id \notin TaskIds(tasks) => ToggledTasks(tasks, id) = tasks
                 /\ id \in TaskIds(tasks) => ToggledTasks(tasks, id) # tasks)

\* C23 witness: of three tasks created Not Started, the first and the third
\* made in the same millisecond, a toggle with their id made both Done and
\* left the second as it was.
C23_Witness ==
    /\ Len(data[1]["tasks"]) = 3
    /\ data[1]["tasks"][1] = [NewTask(1, Today, "Work", 30) EXCEPT !.status = "Done"]
    /\ data[1]["tasks"][2] = NewTask(2, Today, "Work", 30)
    /\ data[1]["tasks"][3] = [NewTask(1, Today, "Work", 30) EXCEPT !.status = "Done"]

====
